---- MODULE Spec2Model ----
(***************************************************************************)
(* Model of the gRPC load harness: CallSimultaneous launches NUM_REQUESTS  *)
(* goroutines, each running GetSapphireRound against its own context with  *)
(* a timeout, joins them on a WaitGroup and then drains one ThreadStatus   *)
(* per task from a buffered channel, counting the failed ones.             *)
(***************************************************************************)
EXTENDS Integers, Sequences, FiniteSets, TLC

\* Largest task count (-n flag) explored.
MaxRequests == 2

\* Logical length of one measured stage: what time.Since(start) returns.
\* Only zero / non-zero matters to ApiTimes, so one positive value stands
\* for every measured duration.
Tick == 1

\* The -delay flag, in units of the logical clock.
DELAY == 1

\* Largest number of runtimes the registry returns to the status probe.
MaxRuntimes == 4

\* RandomSapphireHeight: 500_000 + (rand.Uint64() % 400_000)
HeightLo == 500000
HeightRange == 400000

Tasks == 1..MaxRequests

Nil == "nil"

\* The stages of GetSapphireRound, in program order (fields of ApiTimes).
Stages == <<"Connect", "GetBlock", "GetTransactions", "GetEvents", "Parse">>

StageIndex(s) == CHOOSE n \in 1..Len(Stages) : Stages[n] = s

StageNames == {Stages[n] : n \in 1..Len(Stages)}

VARIABLES
    NUM_REQUESTS,   \* -n flag, set once at startup
    proc,           \* the OS process: "running", "exited" (status 0), "crashed" (panic)
    mainpc,         \* position of main / CallSimultaneous
    i,              \* launch loop index
    k,              \* report loop index
    wg,             \* sync.WaitGroup counter
    ch,             \* buffered channel of ThreadStatus
    num_errors,     \* CallSimultaneous' named result
    received,       \* statuses taken off the channel by the report loop
    randCalls,      \* draws made so far from the shared math/rand source
    draws,          \* the heights the generator returned, in call order
    pc,             \* per goroutine: position
    ctx,            \* per goroutine: state of its subctx
    conn,           \* per goroutine: the grpc connection of Dial
    status,         \* per goroutine: the local ThreadStatus of GetSapphireRound
    fail,           \* per goroutine: the stage whose call failed, or "none"
    param,          \* per goroutine: the value parameter_f() returned for it
    attempts,       \* per goroutine: the stages whose call was made, in order
    root,           \* the context passed to CallSimultaneous
    now,            \* logical clock of the launching path
    launchedAt,     \* per goroutine: clock value at its go statement
    ppc,            \* status probe (main.go): position of main
    probeProc,      \* status probe: "running", "exited" or "crashed" (panic)
    issued,         \* status probe: the RPCs issued so far, with their errors
    out,            \* status probe: what was printed
    numRuntimes,    \* status probe: len(runtimes)
    rt,             \* status probe: index of the range loop
    nilDeref        \* status probe: calls whose nil result was dereferenced

vars == <<NUM_REQUESTS, proc, mainpc, i, k, wg, ch, num_errors, received,
          randCalls, draws, pc, ctx, conn, status, fail, param, attempts, root,
          now, launchedAt, ppc, probeProc, issued, out, numRuntimes, rt,
          nilDeref>>

probeVars == <<ppc, probeProc, issued, out, numRuntimes, rt, nilDeref>>

mainVars == <<mainpc, i, k, num_errors, received>>

----------------------------------------------------------------------------
\* Data

\* ApiTimes{}
ZeroTimes == [s \in StageNames |-> 0]

\* fmt.Sprintf("Round: %d, NumTransactions: %d, Hash: %s", ...)
FormatMsg(round) == <<"Round: ", ToString(round), ", NumTransactions: ", ", Hash: ">>

\* Variant: the summary line is formatted when the status is created.
InitStatus_EagerMsg(t, height) ==
    [task |-> t, ID |-> height, err |-> Nil, msg |-> FormatMsg(height),
     times |-> [s \in StageNames |-> 0]]

\* Variant: the ID field is left at its zero value.
InitStatus_NoID(t, height) ==
    [task |-> t, ID |-> 0, err |-> Nil, msg |-> <<>>,
     times |-> [s \in StageNames |-> 0]]

\* ThreadStatus{ID: height, times: ApiTimes{}}; task tags the goroutine that
\* built the value (not a field of the program's struct).
InitStatus(t, height) ==
    [task |-> t, ID |-> height, err |-> Nil, msg |-> <<>>, times |-> ZeroTimes]

\* Variant: the measured duration is never stored.
WithTime_Drop(st, stage, d) == st

\* status.times.<stage> = time.Since(start)
WithTime(st, stage, d) == [st EXCEPT !.times[stage] = d]

\* status.err = err
WithErr(st, e) == [st EXCEPT !.err = e]

\* status.msg = ...
WithMsg(st, m) == [st EXCEPT !.msg = m]

\* rand.Uint64(): what a draw of the shared source may return. The values
\* are arbitrary and may repeat; the samples reach both ends of the height
\* range and two of them are congruent modulo the range.
RandUint64 == {0, HeightRange - 1, HeightRange}

\* RandomSapphireHeight, for the value r its rand.Uint64() call returned
RandomSapphireHeight(r) == HeightLo + (r % HeightRange)

\* Variant: a buffer one slot short.
ChanCap_Short == NUM_REQUESTS - 1

\* make(chan ThreadStatus, NUM_REQUESTS)
ChanCap == NUM_REQUESTS

\* for i := 0; i < NUM_REQUESTS; i++ (report loop)
ReportBound == NUM_REQUESTS

\* Variant: the join is skipped.
WaitGroupZero_NoJoin == TRUE

\* wg.Wait() returns
WaitGroupZero == wg = 0

\* Variant: every drained status is counted.
CountError_Always(st, n) == n + 1

\* if status.err != nil { num_errors += 1 }
CountError(st, n) == IF st.err # Nil THEN n + 1 ELSE n

\* Variant: no early return after a failed stage.
StageFailed_Never(e) == FALSE

\* if err != nil { ... return status }
StageFailed(e) == e # Nil

\* context.WithTimeout(parent, TIMEOUT): a child of a cancelled parent is
\* born cancelled.
WithTimeout(parent) == IF parent = "cancelled" THEN "cancelled" ELSE "live"

\* Variant: the pause between launches is dropped.
SleepUntil_NoPause(t) == t

\* time.Sleep(DELAY): the clock value at which the launcher goes on.
SleepUntil(t) == t + DELAY

\* ctx.Done() is closed: deadline passed or cancel() called
CtxDone(t) == ctx[t] \in {"expired", "cancelled"}

\* ctx.Err()
CtxErr(t) == IF ctx[t] = "expired" THEN "DeadlineExceeded" ELSE "Canceled"

\* What a remote call on subctx may return: a call on a finished context
\* fails with the context's error; otherwise it succeeds or the RPC fails.
RpcResults(t) == IF CtxDone(t) THEN {CtxErr(t)} ELSE {Nil, "RpcError"}

----------------------------------------------------------------------------
InitHarness ==
    /\ NUM_REQUESTS \in 0..MaxRequests
    /\ proc = "running"
    /\ mainpc = IF NUM_REQUESTS > 0 THEN "launch" ELSE "wait"
    /\ i = 0
    /\ k = 0
    /\ wg = 0
    /\ ch = <<>>
    /\ num_errors = 0
    /\ received = {}
    /\ randCalls = 0
    /\ draws = <<>>
    /\ pc = [t \in Tasks |-> "idle"]
    /\ ctx = [t \in Tasks |-> "none"]
    /\ conn = [t \in Tasks |-> "none"]
    /\ status = [t \in Tasks |-> InitStatus(t, 0)]
    /\ fail = [t \in Tasks |-> "none"]
    /\ param = [t \in Tasks |-> 0]
    /\ attempts = [t \in Tasks |-> <<>>]
    /\ root = "live"
    /\ now = 0
    /\ launchedAt = [t \in Tasks |-> -1]

\* The status probe before its main has run a statement.
InitProbeVars(start) ==
    /\ ppc = start
    /\ probeProc = "running"
    /\ issued = <<>>
    /\ out = <<>>
    /\ numRuntimes = 0
    /\ rt = 0
    /\ nilDeref = {}

\* The load harness is the program that runs; the probe is not started.
Init == InitHarness /\ InitProbeVars("off")

----------------------------------------------------------------------------
\* CallSimultaneous, launch loop

\* Variant: a launch waits until the previously launched task has ended.
Launch_AfterPrevious ==
    /\ proc = "running"
    /\ mainpc = "launch"
    /\ i < NUM_REQUESTS
    /\ \A t \in Tasks : t = i => pc[t] \in {"done", "panicked"}
    /\ ctx' = [ctx EXCEPT ![i + 1] = WithTimeout(root)]
    /\ launchedAt' = [launchedAt EXCEPT ![i + 1] = now]
    /\ wg' = wg + 1
    /\ pc' = [pc EXCEPT ![i + 1] = "param"]
    /\ mainpc' = "sleep"
    /\ UNCHANGED <<probeVars, NUM_REQUESTS, proc, i, k, ch, num_errors, received,
                   randCalls, draws, conn, status, fail, param, attempts, root, now>>

\* subctx, cancel := context.WithTimeout(ctx, TIMEOUT); wg.Add(1); go func(){...}()
Launch ==
    /\ proc = "running"
    /\ mainpc = "launch"
    /\ i < NUM_REQUESTS
    /\ ctx' = [ctx EXCEPT ![i + 1] = WithTimeout(root)]
    /\ launchedAt' = [launchedAt EXCEPT ![i + 1] = now]
    /\ wg' = wg + 1
    /\ pc' = [pc EXCEPT ![i + 1] = "param"]
    /\ mainpc' = "sleep"
    /\ UNCHANGED <<probeVars, param, attempts, root, now,
                   NUM_REQUESTS, proc, i, k, ch, num_errors, received,
                   randCalls, draws, conn, status, fail>>

\* time.Sleep(DELAY); i++; loop test
Sleep ==
    /\ proc = "running"
    /\ mainpc = "sleep"
    /\ now' = SleepUntil(now)
    /\ i' = i + 1
    /\ mainpc' = IF i + 1 < NUM_REQUESTS THEN "launch" ELSE "wait"
    /\ UNCHANGED <<probeVars, param, attempts, root, launchedAt,
                   NUM_REQUESTS, proc, k, wg, ch, num_errors, received,
                   randCalls, draws, pc, ctx, conn, status, fail>>

\* wg.Wait()
Wait ==
    /\ proc = "running"
    /\ mainpc = "wait"
    /\ WaitGroupZero
    /\ mainpc' = IF 0 < ReportBound THEN "report" ELSE "returned"
    /\ UNCHANGED <<probeVars, param, attempts, root, now, launchedAt,
                   NUM_REQUESTS, proc, i, k, wg, ch, num_errors, received,
                   randCalls, draws, pc, ctx, conn, status, fail>>

\* status, _ := <-ch; print; count; i++; loop test; return num_errors
Receive ==
    /\ proc = "running"
    /\ mainpc = "report"
    /\ Len(ch) > 0
    /\ LET st == Head(ch) IN
        /\ ch' = Tail(ch)
        /\ received' = received \cup {st}
        /\ num_errors' = CountError(st, num_errors)
    /\ k' = k + 1
    /\ mainpc' = IF k + 1 < ReportBound THEN "report" ELSE "returned"
    /\ UNCHANGED <<probeVars, param, attempts, root, now, launchedAt,
                   NUM_REQUESTS, proc, i, wg, randCalls, draws, pc, ctx, conn,
                   status, fail>>

\* main: the three summary lines, then return from main
MainExit ==
    /\ proc = "running"
    /\ mainpc = "returned"
    /\ mainpc' = "exit"
    /\ proc' = "exited"
    /\ UNCHANGED <<probeVars, param, attempts, root, now, launchedAt,
                   NUM_REQUESTS, i, k, wg, ch, num_errors, received,
                   randCalls, draws, pc, ctx, conn, status, fail>>

----------------------------------------------------------------------------
\* The goroutine of task t

\* Variant: the generator is read without advancing it.
Param_NoAdvance(t) ==
    /\ proc = "running"
    /\ pc[t] = "param"
    /\ \E r \in RandUint64 :
        /\ status' = [status EXCEPT ![t] = InitStatus(t, RandomSapphireHeight(r))]
        /\ param' = [param EXCEPT ![t] = RandomSapphireHeight(r)]
    /\ pc' = [pc EXCEPT ![t] = "Connect"]
    /\ UNCHANGED <<probeVars, attempts, root, now, launchedAt, randCalls, draws,
                   NUM_REQUESTS, proc, mainVars, wg, ch, ctx, conn, fail>>

\* parameter_f() evaluated inside the goroutine, then GetSapphireRound starts:
\* status := ThreadStatus{ID: height, times: ApiTimes{}}
Param(t) ==
    /\ proc = "running"
    /\ pc[t] = "param"
    /\ \E r \in RandUint64 :
        /\ status' = [status EXCEPT ![t] = InitStatus(t, RandomSapphireHeight(r))]
        /\ param' = [param EXCEPT ![t] = RandomSapphireHeight(r)]
        /\ draws' = Append(draws, RandomSapphireHeight(r))
    /\ randCalls' = randCalls + 1
    /\ pc' = [pc EXCEPT ![t] = "Connect"]
    /\ UNCHANGED <<probeVars, attempts, root, now, launchedAt,
                   NUM_REQUESTS, proc, mainVars, wg, ch, ctx, conn, fail>>

\* The first stage of task t whose call returned an error (history of the
\* outcomes the environment produced; the program does not read it).
NoteFail(t, stage, e) ==
    fail' = [fail EXCEPT ![t] = IF e # Nil /\ @ = "none" THEN stage ELSE @]

\* conn, err := oasisGrpc.Dial(URL, dialOpts...): takes no context
\* if err != nil { status.err = err; return status }
Connect(t) ==
    /\ proc = "running"
    /\ pc[t] = "Connect"
    /\ attempts' = [attempts EXCEPT ![t] = Append(@, "Connect")]
    /\ \E e \in {Nil, "DialError"} :
        /\ NoteFail(t, "Connect", e)
        /\ conn' = [conn EXCEPT ![t] = IF e = Nil THEN "open" ELSE @]
        /\ IF StageFailed(e)
           THEN /\ status' = [status EXCEPT ![t] = WithErr(@, e)]
                /\ pc' = [pc EXCEPT ![t] = "send"]
           ELSE /\ status' = [status EXCEPT ![t] = WithTime(@, "Connect", Tick)]
                /\ pc' = [pc EXCEPT ![t] = "GetBlock"]
    /\ UNCHANGED <<probeVars, param, root, now, launchedAt,
                   NUM_REQUESTS, proc, mainVars, wg, ch, randCalls, draws, ctx>>

\* block, err := client.GetBlock(ctx, getBlockRequest)
\* if err != nil { status.err = err; return status }
GetBlock(t) ==
    /\ proc = "running"
    /\ pc[t] = "GetBlock"
    /\ attempts' = [attempts EXCEPT ![t] = Append(@, "GetBlock")]
    /\ \E e \in RpcResults(t) :
        /\ NoteFail(t, "GetBlock", e)
        /\ IF StageFailed(e)
           THEN /\ status' = [status EXCEPT ![t] = WithErr(@, e)]
                /\ pc' = [pc EXCEPT ![t] = "send"]
           ELSE /\ status' = [status EXCEPT ![t] = WithTime(@, "GetBlock", Tick)]
                /\ pc' = [pc EXCEPT ![t] = "GetTransactions"]
    /\ UNCHANGED <<probeVars, param, root, now, launchedAt,
                   NUM_REQUESTS, proc, mainVars, wg, ch, randCalls, draws, ctx, conn>>

\* txs, err := client.GetTransactionsWithResults(ctx, ...)
\* if err != nil { return status }
GetTransactions(t) ==
    /\ proc = "running"
    /\ pc[t] = "GetTransactions"
    /\ attempts' = [attempts EXCEPT ![t] = Append(@, "GetTransactions")]
    /\ \E e \in RpcResults(t) :
        /\ NoteFail(t, "GetTransactions", e)
        /\ IF StageFailed(e)
           THEN /\ status' = status
                /\ pc' = [pc EXCEPT ![t] = "send"]
           ELSE /\ status' = [status EXCEPT ![t] = WithTime(@, "GetTransactions", Tick)]
                /\ pc' = [pc EXCEPT ![t] = "GetEvents"]
    /\ UNCHANGED <<probeVars, param, root, now, launchedAt,
                   NUM_REQUESTS, proc, mainVars, wg, ch, randCalls, draws, ctx, conn>>

\* events, err := client.GetEvents(ctx, ...)
\* if err != nil { return status }
GetEvents(t) ==
    /\ proc = "running"
    /\ pc[t] = "GetEvents"
    /\ attempts' = [attempts EXCEPT ![t] = Append(@, "GetEvents")]
    /\ \E e \in RpcResults(t) :
        /\ NoteFail(t, "GetEvents", e)
        /\ IF StageFailed(e)
           THEN /\ status' = status
                /\ pc' = [pc EXCEPT ![t] = "send"]
           ELSE /\ status' = [status EXCEPT ![t] = WithTime(@, "GetEvents", Tick)]
                /\ pc' = [pc EXCEPT ![t] = "Parse"]
    /\ UNCHANGED <<probeVars, param, root, now, launchedAt,
                   NUM_REQUESTS, proc, mainVars, wg, ch, randCalls, draws, ctx, conn>>

\* bd, err := TryNexusParseBlock(block, txs, events): err is never tested.
\* On failure TryNexusParseBlock returns (nil, err), and bd.Header.Round in
\* the Sprintf dereferences the nil pointer: the goroutine panics.
Parse(t) ==
    /\ proc = "running"
    /\ pc[t] = "Parse"
    /\ attempts' = [attempts EXCEPT ![t] = Append(@, "Parse")]
    /\ \E e \in {Nil, "DecodeError"} :
        /\ NoteFail(t, "Parse", e)
        /\ IF e = Nil
           THEN /\ status' = [status EXCEPT ![t] =
                       WithTime(WithMsg(@, FormatMsg(@.ID)), "Parse", Tick)]
                /\ pc' = [pc EXCEPT ![t] = "send"]
           ELSE /\ status' = status
                /\ pc' = [pc EXCEPT ![t] = "panicking"]
    /\ UNCHANGED <<probeVars, param, root, now, launchedAt,
                   NUM_REQUESTS, proc, mainVars, wg, ch, randCalls, draws, ctx, conn>>

\* ch <- call_f(...): blocks while the buffer is full
Send(t) ==
    /\ proc = "running"
    /\ pc[t] = "send"
    /\ Len(ch) < ChanCap
    /\ ch' = Append(ch, status[t])
    /\ pc' = [pc EXCEPT ![t] = "cancel"]
    /\ UNCHANGED <<probeVars, param, attempts, root, now, launchedAt,
                   NUM_REQUESTS, proc, mainVars, wg, randCalls, draws, ctx, conn,
                   status, fail>>

\* cancel(): a context that already expired keeps its DeadlineExceeded
Cancel(t) ==
    /\ proc = "running"
    /\ pc[t] = "cancel"
    /\ ctx' = [ctx EXCEPT ![t] = IF @ = "live" THEN "cancelled" ELSE @]
    /\ pc' = [pc EXCEPT ![t] = "deferDone"]
    /\ UNCHANGED <<probeVars, param, attempts, root, now, launchedAt,
                   NUM_REQUESTS, proc, mainVars, wg, ch, randCalls, draws, conn,
                   status, fail>>

\* defer wg.Done(), on normal return of the goroutine
Done(t) ==
    /\ proc = "running"
    /\ pc[t] = "deferDone"
    /\ wg' = wg - 1
    /\ pc' = [pc EXCEPT ![t] = "done"]
    /\ UNCHANGED <<probeVars, param, attempts, root, now, launchedAt,
                   NUM_REQUESTS, proc, mainVars, ch, randCalls, draws, ctx, conn,
                   status, fail>>

\* defer wg.Done(), run while the panic unwinds the goroutine
PanicUnwind(t) ==
    /\ proc = "running"
    /\ pc[t] = "panicking"
    /\ wg' = wg - 1
    /\ pc' = [pc EXCEPT ![t] = "panicked"]
    /\ UNCHANGED <<probeVars, param, attempts, root, now, launchedAt,
                   NUM_REQUESTS, proc, mainVars, ch, randCalls, draws, ctx, conn,
                   status, fail>>

\* No recover: the runtime ends the whole process.
Crash(t) ==
    /\ proc = "running"
    /\ pc[t] = "panicked"
    /\ proc' = "crashed"
    /\ UNCHANGED <<probeVars, param, attempts, root, now, launchedAt,
                   NUM_REQUESTS, mainVars, wg, ch, randCalls, draws, pc, ctx, conn,
                   status, fail>>

\* The timer of context.WithTimeout(ctx, TIMEOUT) fires: at any moment
\* until cancel() has stopped it.
Timeout(t) ==
    /\ proc = "running"
    /\ ctx[t] = "live"
    /\ ctx' = [ctx EXCEPT ![t] = "expired"]
    /\ UNCHANGED <<probeVars, param, attempts, root, now, launchedAt,
                   NUM_REQUESTS, proc, mainVars, wg, ch, randCalls, draws, pc, conn,
                   status, fail>>

Task(t) ==
    \/ Param(t)
    \/ Connect(t)
    \/ GetBlock(t)
    \/ GetTransactions(t)
    \/ GetEvents(t)
    \/ Parse(t)
    \/ Send(t)
    \/ Cancel(t)
    \/ Done(t)
    \/ PanicUnwind(t)
    \/ Crash(t)
    \/ Timeout(t)

\* The caller of CallSimultaneous cancels the context it passed in; the
\* cancellation reaches every subctx derived from it that is still live.
CancelRoot ==
    /\ proc = "running"
    /\ mainpc \in {"launch", "sleep", "wait"}
    /\ root = "live"
    /\ root' = "cancelled"
    /\ ctx' = [t \in Tasks |-> IF ctx[t] = "live" THEN "cancelled" ELSE ctx[t]]
    /\ UNCHANGED <<probeVars, NUM_REQUESTS, proc, mainVars, wg, ch, randCalls, draws, pc, conn,
                   status, fail, param, attempts, now, launchedAt>>

Next ==
    \/ Launch
    \/ Sleep
    \/ Wait
    \/ Receive
    \/ MainExit
    \/ \E t \in Tasks : Task(t)

Spec == Init /\ [][Next]_vars

\* CallSimultaneous under a caller whose context can be cancelled.
NextRoot ==
    \/ Next
    \/ CancelRoot

SpecRoot == Init /\ [][NextRoot]_vars

----------------------------------------------------------------------------
\* The sequential status probe (main.go)

harnessVars == <<NUM_REQUESTS, proc, mainpc, i, k, wg, ch, num_errors,
                 received, randCalls, draws, pc, ctx, conn, status, fail, param,
                 attempts, root, now, launchedAt>>

\* One RPC that was issued and the error it returned.
Call(rpc, e) == [rpc |-> rpc, err |-> e]

\* if err != nil { fmt.Print(...); fmt.Println(err); return }
ProbeFatal(rpc, e) ==
    /\ out' = Append(out, <<rpc, "error">>)
    /\ ppc' = "end"
    /\ probeProc' = "exited"

\* conn, err := oasisGrpc.Dial(os.Args[1], dialOpts...)
ProbeDial ==
    /\ probeProc = "running"
    /\ ppc = "Dial"
    /\ \E e \in {Nil, "DialError"} :
        /\ issued' = Append(issued, Call("Dial", e))
        /\ IF e # Nil
           THEN ProbeFatal("Dial", e)
           ELSE /\ ppc' = "GetBaseEpoch"
                /\ UNCHANGED <<out, probeProc>>
    /\ UNCHANGED <<harnessVars, numRuntimes, rt, nilDeref>>

\* epoch, err := beaconClient.GetBaseEpoch(ctx)
ProbeGetBaseEpoch ==
    /\ probeProc = "running"
    /\ ppc = "GetBaseEpoch"
    /\ \E e \in {Nil, "RpcError"} :
        /\ issued' = Append(issued, Call("GetBaseEpoch", e))
        /\ IF e # Nil
           THEN ProbeFatal("GetBaseEpoch", e)
           ELSE /\ out' = Append(out, <<"BaseEpoch">>)
                /\ ppc' = "GetBlock"
                /\ UNCHANGED probeProc
    /\ UNCHANGED <<harnessVars, numRuntimes, rt, nilDeref>>

\* block, err := consensusClient.GetBlock(ctx, consensus.HeightLatest)
\* height := block.Height: err is not tested, and on failure block is nil,
\* so the field access panics.
ProbeGetBlock ==
    /\ probeProc = "running"
    /\ ppc = "GetBlock"
    /\ \E e \in {Nil, "RpcError"} :
        /\ issued' = Append(issued, Call("GetBlock", e))
        /\ IF e # Nil
           THEN /\ nilDeref' = nilDeref \cup {"GetBlock"}
                /\ ppc' = "end"
                /\ probeProc' = "crashed"
                /\ out' = out
           ELSE /\ out' = Append(out, <<"LatestHeight">>)
                /\ ppc' = "GetRuntimes"
                /\ UNCHANGED <<probeProc, nilDeref>>
    /\ UNCHANGED <<harnessVars, numRuntimes, rt>>

\* runtimes, err := registryClient.GetRuntimes(ctx, ...); then the loop test
ProbeGetRuntimes ==
    /\ probeProc = "running"
    /\ ppc = "GetRuntimes"
    /\ \E e \in {Nil, "RpcError"}, n \in 0..MaxRuntimes :
        /\ (e # Nil => n = 0)
        /\ issued' = Append(issued, Call("GetRuntimes", e))
        /\ IF e # Nil
           THEN /\ ProbeFatal("GetRuntimes", e)
                /\ UNCHANGED numRuntimes
           ELSE /\ out' = Append(out, <<"Runtimes:">>)
                /\ numRuntimes' = n
                /\ ppc' = IF n > 0 THEN "GetRuntimeState" ELSE "GetChainContext"
                /\ UNCHANGED probeProc
    /\ UNCHANGED <<harnessVars, rt, nilDeref>>

\* One iteration of for _, runtime := range runtimes: GetRuntimeState, on
\* error print it and continue, else print the block's timestamp.
ProbeGetRuntimeState ==
    /\ probeProc = "running"
    /\ ppc = "GetRuntimeState"
    /\ \E e \in {Nil, "RpcError"} :
        /\ issued' = Append(issued, Call("GetRuntimeState", e))
        /\ out' = Append(out, IF e # Nil THEN <<"GetRuntimeState", "error">>
                                          ELSE <<"timestamp">>)
    /\ rt' = rt + 1
    /\ ppc' = IF rt + 1 < numRuntimes THEN "GetRuntimeState" ELSE "GetChainContext"
    /\ UNCHANGED <<harnessVars, probeProc, numRuntimes, nilDeref>>

\* chainContext, err := consensusClient.GetChainContext(ctx): the error is
\* printed, the (string) result is printed in either case; main returns.
ProbeGetChainContext ==
    /\ probeProc = "running"
    /\ ppc = "GetChainContext"
    /\ \E e \in {Nil, "RpcError"} :
        /\ issued' = Append(issued, Call("GetChainContext", e))
        /\ out' = IF e # Nil
                  THEN out \o << <<"GetChainContext", "error">>, <<"ChainContext">> >>
                  ELSE Append(out, <<"ChainContext">>)
    /\ ppc' = "end"
    /\ probeProc' = "exited"
    /\ UNCHANGED <<harnessVars, numRuntimes, rt, nilDeref>>

NextProbe ==
    \/ ProbeDial
    \/ ProbeGetBaseEpoch
    \/ ProbeGetBlock
    \/ ProbeGetRuntimes
    \/ ProbeGetRuntimeState
    \/ ProbeGetChainContext

\* The status probe is the program that runs; the harness is not started.
InitProbe ==
    /\ InitHarness
    /\ NUM_REQUESTS = 0
    /\ InitProbeVars("Dial")

SpecProbe == InitProbe /\ [][NextProbe]_vars

----------------------------------------------------------------------------
\* Vocabulary of the properties

\* GetSapphireRound has returned a ThreadStatus for task t.
Returned(t) == pc[t] \in {"send", "cancel", "deferDone", "done"}

\* Task t has put its status on the channel.
Sent(t) == pc[t] \in {"cancel", "deferDone", "done"}

\* The goroutine of task t has ended (normally or by panic).
Finished(t) == pc[t] \in {"done", "panicked"}

Launched == 1..NUM_REQUESTS

InChan == {ch[n] : n \in 1..Len(ch)}

StagesAfter(s) == {Stages[n] : n \in (StageIndex(s) + 1)..Len(Stages)}

StagesBefore(s) == {Stages[n] : n \in 1..(StageIndex(s) - 1)}

\* Every status the program has produced so far.
Produced == InChan \cup received \cup {status[t] : t \in {u \in Tasks : Returned(u)}}

----------------------------------------------------------------------------
\* C1: when a run is over, exactly NUM_REQUESTS statuses were sent, one per
\* launched task, exactly NUM_REQUESTS were received, none twice, and the
\* channel is empty - whatever the tasks' outcomes were.
C1_ExactlyNResults ==
    (proc # "running") =>
        /\ \A t \in Launched : Sent(t)
        /\ k = NUM_REQUESTS
        /\ {st.task : st \in received} = Launched
        /\ ch = <<>>

\* C2: a returned status carries an error exactly when a stage failed or
\* hit the deadline.
C2_ErrIffStageFailed ==
    \A t \in Tasks : Returned(t) => ((status[t].err # Nil) <=> (fail[t] # "none"))

\* C3: the error count equals the number of drained statuses whose err is set.
C3_ErrorCount ==
    /\ Cardinality(received) = k
    /\ num_errors = Cardinality({st \in received : st.err # Nil})

C3_Witness ==
    /\ mainpc = "returned"
    /\ NUM_REQUESTS = 2
    /\ num_errors = 1
    /\ \E st \in received : st.err = Nil

\* C4: the report loop takes its first result, and CallSimultaneous returns,
\* only after every launched goroutine has ended and called wg.Done.
C4_JoinBeforeReport ==
    (mainpc \in {"report", "returned", "exit"} /\ NUM_REQUESTS > 0) =>
        /\ wg = 0
        /\ \A t \in Launched : Finished(t)

C4_Witness ==
    /\ mainpc = "report"
    /\ NUM_REQUESTS = 2
    /\ k = 1
    /\ Len(ch) = 1

\* C5: the channel never holds more than NUM_REQUESTS statuses, its capacity
\* is NUM_REQUESTS, and a task that is about to send always finds a free slot.
C5_SendNeverBlocks ==
    /\ Len(ch) <= NUM_REQUESTS
    /\ \A t \in Tasks : pc[t] = "send" => Len(ch) < ChanCap

C5_Witness ==
    /\ NUM_REQUESTS = 2
    /\ mainpc = "wait"
    /\ Len(ch) = 1
    /\ \E t \in Tasks : pc[t] = "send" /\ ctx[t] = "expired"

\* C6: no task outcome aborts the process: it never ends other than by
\* main returning after the summary.
C6_NoAbort == proc # "crashed"

\* C7: a returned status has a non-empty msg only if every stage, decode
\* included, succeeded; after any failure msg is empty.
C7_MsgOnlyOnSuccess ==
    \A st \in Produced :
        /\ st.msg # <<>> => fail[st.task] = "none"
        /\ fail[st.task] # "none" => st.msg = <<>>

C7_Witness ==
    /\ NUM_REQUESTS = 2
    /\ \E st \in received : fail[st.task] = "GetEvents" /\ st.msg = <<>>
    /\ \E st \in received : st.msg # <<>>

\* C8: in a returned status every stage after the failed one has timing zero.
C8_LaterTimingsZero ==
    \A st \in Produced :
        fail[st.task] # "none" =>
            \A s \in StagesAfter(fail[st.task]) : st.times[s] = 0

C8_Witness ==
    \E t \in Tasks :
        /\ Returned(t)
        /\ fail[t] = "GetBlock"
        /\ status[t].times["Connect"] # 0
        /\ \A s \in StagesAfter("GetBlock") : status[t].times[s] = 0

\* C9 as stated: the timings of all stages up to and including the failed
\* one are recorded.
C9_UpToFailingRecorded ==
    \A st \in Produced :
        fail[st.task] # "none" =>
            \A s \in StagesBefore(fail[st.task]) \cup {fail[st.task]} :
                st.times[s] # 0

\* C9 amended: the timings of all stages before the failed one are
\* recorded, and the timing of the failed stage itself is zero.
C9_BeforeFailingRecorded ==
    \A st \in Produced :
        fail[st.task] # "none" =>
            /\ \A s \in StagesBefore(fail[st.task]) : st.times[s] # 0
            /\ st.times[fail[st.task]] = 0

C9_Witness ==
    \E t \in Tasks :
        /\ Sent(t)
        /\ fail[t] = "GetEvents"
        /\ status[t].times["GetTransactions"] = Tick
        /\ status[t].times["GetEvents"] = 0

\* C10: no goroutine ends while the connection it dialled is still open.
C10_ConnReleased ==
    \A t \in Tasks : Finished(t) => conn[t] # "open"

\* The goroutine of task t is started and has not yet handed over a result.
InFlight(t) ==
    pc[t] \in {"param", "Connect", "GetBlock", "GetTransactions", "GetEvents",
               "Parse", "send"}

\* C11: a task all of whose stages succeeded has nil err, a non-empty msg,
\* the ID it was called with and five recorded timings; when all N tasks
\* succeeded, CallSimultaneous returns 0.
C11_AllStagesSucceed ==
    /\ \A st \in Produced :
        fail[st.task] = "none" =>
            /\ st.err = Nil
            /\ st.msg # <<>>
            /\ st.ID = param[st.task]
            /\ \A s \in StageNames : st.times[s] # 0
    /\ (mainpc \in {"returned", "exit"} /\ \A t \in Launched : fail[t] = "none")
            => num_errors = 0

C11_Witness ==
    /\ NUM_REQUESTS = 2
    /\ mainpc = "returned"
    /\ \A t \in Launched : fail[t] = "none"
    /\ Cardinality(received) = 2
    /\ num_errors = 0

\* C12: a task whose decode failed still hands over a status, with err set
\* and msg empty.
C12_DecodeErrorReported ==
    \A t \in Tasks :
        (fail[t] = "Parse" /\ Finished(t)) =>
            \E st \in InChan \cup received :
                st.task = t /\ st.err # Nil /\ st.msg = <<>>

\* C13: only a task's own cancel() cancels its context, and when the run is
\* over every task has been launched and has delivered its result, whatever
\* happened to the others (a task whose own decode failed is C12's matter).
C13_Isolation ==
    /\ \A t \in Tasks : ctx[t] = "cancelled" => pc[t] \in {"deferDone", "done"}
    /\ (proc # "running") =>
            \A t \in Launched : fail[t] # "Parse" => Sent(t)

\* C14: while the launch loop has a task left, the launch is enabled
\* whatever the earlier tasks are doing, and the tasks started so far are
\* exactly the first ones in index order.
C14_LaunchNeverWaits ==
    /\ (proc = "running" /\ mainpc = "launch") => ENABLED Launch
    /\ \A t \in Tasks :
        (pc[t] # "idle") <=> (t <= i \/ (t = i + 1 /\ mainpc = "sleep"))

C14_Witness ==
    /\ NUM_REQUESTS >= 2
    /\ \A t \in Launched : InFlight(t)

\* The statuses task t has handed over.
Delivered(t) == {st \in InChan \cup received : st.task = t}

\* The tasks whose goroutine has drawn its parameter.
Drawn == {t \in Tasks : pc[t] \notin {"idle", "param"}}

\* C15: each task attempts the stages in the fixed order, each at most once
\* and only after every earlier stage succeeded, and an ended task has
\* handed over exactly one ThreadStatus.
C15_OrderedOnceOneResult ==
    \A t \in Tasks :
        /\ Len(attempts[t]) <= Len(Stages)
        /\ \A n \in 1..Len(attempts[t]) : attempts[t][n] = Stages[n]
        /\ fail[t] # "none" => Len(attempts[t]) = StageIndex(fail[t])
        /\ Finished(t) => Cardinality(Delivered(t)) = 1

\* How often value v occurs among the generator's outputs, and among the
\* parameters of the tasks that have drawn.
TimesDrawn(v) == Cardinality({n \in 1..Len(draws) : draws[n] = v})

TimesUsed(v) == Cardinality({t \in Drawn : param[t] = v})

\* C16 as stated: the parameter of a task is drawn before the task is
\* started, in launch order, so the i-th task runs with the i-th draw.
C16_DrawnOnLaunchPath ==
    /\ \A t \in Tasks : pc[t] # "idle" => randCalls >= t
    /\ \A t \in Drawn : param[t] = draws[t]

\* C16 amended: the generator is invoked exactly once per task, inside the
\* task's goroutine after its launch; every value drawn goes to exactly one
\* task and each result's ID is the value its own task drew.
C16_DrawnInGoroutine ==
    /\ randCalls = Cardinality(Drawn)
    /\ Len(draws) = randCalls
    /\ \A t \in Drawn : pc[t] # "idle" /\ TimesDrawn(param[t]) = TimesUsed(param[t])
    /\ \A n \in 1..Len(draws) : TimesUsed(draws[n]) = TimesDrawn(draws[n])
    /\ \A st \in Produced : st.ID = param[st.task]

C16_Witness ==
    /\ NUM_REQUESTS = 2
    /\ Sent(1)
    /\ Sent(2)
    /\ draws[1] # draws[2]
    /\ param[2] = draws[1]
    /\ param[1] = draws[2]

\* C17: once the root context is cancelled, every remote stage a task still
\* runs ends as a failure and the task returns a status with err set.
C17_RootCancelObserved ==
    [][\A t \in Tasks :
          (root = "cancelled"
              /\ pc[t] \in {"GetBlock", "GetTransactions", "GetEvents"}
              /\ pc'[t] # pc[t])
            => (pc'[t] = "send" /\ status'[t].err # Nil)]_vars

\* C18: successive launches are at least DELAY apart on the logical clock,
\* so the t-th launch is at least (t-1)*DELAY after the first.
C18_LaunchPacing ==
    \A t \in Tasks :
        launchedAt[t] >= 0 =>
            /\ launchedAt[1] >= 0
            /\ launchedAt[t] - launchedAt[1] >= (t - 1) * DELAY
            /\ t > 1 => launchedAt[t] - launchedAt[t - 1] >= DELAY

C18_Witness ==
    /\ NUM_REQUESTS >= 2
    /\ launchedAt[NUM_REQUESTS] >= DELAY
    /\ DELAY > 0

\* The RPCs of the probe after whose failure main returns.
FatalRpcs == {"Dial", "GetBaseEpoch", "GetBlock", "GetRuntimes"}

\* C19: in the status probe no failed call's result is dereferenced, a
\* failed Dial, GetBaseEpoch, GetBlock or GetRuntimes is the last RPC issued,
\* and a failed GetRuntimeState skips only its runtime: every runtime is
\* queried and GetChainContext follows.
C19_FailureHandledBeforeUse ==
    /\ nilDeref = {}
    /\ probeProc # "crashed"
    /\ \A n \in 1..Len(issued) :
        (issued[n].rpc \in FatalRpcs /\ issued[n].err # Nil) => n = Len(issued)
    /\ (ppc = "end" /\ issued[Len(issued)].rpc = "GetChainContext") =>
        Cardinality({n \in 1..Len(issued) : issued[n].rpc = "GetRuntimeState"})
            = numRuntimes

====
